---- MODULE Spec2Model ----
(***************************************************************************)
(* Model of the e-commerce module of withvlibe/base-sdk                    *)
(* (class VlibeBaseEcommerce, src/unnamed/part_000 lines 802-1482) on top  *)
(* of the record store client VlibeBaseDatabase (lines 424-778).           *)
(*                                                                         *)
(* The remote record store is modelled as four collections (products,      *)
(* orders, order_items, carts).  Every public method called and awaited    *)
(* to completion is one action; the method's own code is a pure operator   *)
(* over the collections that returns the error it throws ("none" when it   *)
(* returns normally) together with the collections it leaves behind.       *)
(* Calls that overlap are modelled one round trip per action, with the     *)
(* values a call holds between round trips kept in tasks.  The realtime    *)
(* subscriptions of VlibeBaseDatabase, the subscription check of           *)
(* VlibeBaseAuth and the useCollection hook have specifications of their   *)
(* own over the variables channels, subscriptions, auth and hook.          *)
(* An order carries created_at only where the analytics methods read it    *)
(* (SpecStats); updated_at and free-form fields that no method reads       *)
(* (addresses, notes, images, ...) are not represented.                    *)
(***************************************************************************)
EXTENDS Integers, Sequences, FiniteSets, TLC

\* ------------------------------------------------------------------ bounds
MaxStock == 2
MaxCartRows == 2
MaxOrders == 1
\* Instants told apart within one day, and orders on record when the
\* analytics methods are called.
TicksPerDay == 2
MaxStatsOrders == 2
\* Channels one VlibeBaseDatabase instance makes.
MaxChannels == 3
\* Documents ever inserted into the collection a hook shows, changes made to
\* one document, and realtime events on their way to the hook.
MaxDocs == 2
MaxVersion == 1
MaxEvents == 2

\* --------------------------------------------------------- program constants
TaxPercent == 8
FreeShippingOver == 5000
ShippingFee == 500
DaysPerWeek == 7

\* ------------------------------------------------------------- input domains
\* Products that exist in the products collection (never hard-deleted).
Products == {"p1", "p2"}
\* Product ids a caller may pass; "px" is an id with no product record.
ProductIds == Products \cup {"px"}
Users == {"u1", "u2"}
\* quantity: number -- callers may pass any integer, also 0 and negatives.
Qty == -1 .. 2
\* Quantities passed to the cart methods, and those of order lines.
CartQty == 0 .. 2
OrderQty == 1 .. 2
Operations == {"set", "increment", "decrement"}
Statuses == {"pending", "processing", "shipped", "delivered", "cancelled"}
InitPrice == [p \in Products |-> IF p = "p1" THEN 2500 ELSE 1]
InitName == [p \in Products |-> IF p = "p1" THEN "Alpha" ELSE "Beta"]
InitStock == [p \in Products |-> IF p = "p1" THEN 2 ELSE 1]

VARIABLES
    products,     \* collection 'products': productId -> record
    orders,       \* collection 'orders': sequence of order records
    order_items,  \* collection 'order_items': sequence of line records
    carts,        \* collection 'carts': sequence of cart rows
    last,         \* the last completed call: method, arguments, error, result
    ledger,       \* history: per product, stock at start and sums of inc/dec
    added,        \* history: per (user, product), addToCart calls and their sum
    tasks,        \* calls in flight: per caller, position and local values
    report,       \* the last analytics call: its inputs and the value returned
    channels,     \* realtime channels made by subscribe, in order of creation
    subscriptions,\* VlibeBaseDatabase.subscriptions: channel name -> channel
    hook,         \* a mounted useCollection: its data, the store it reads
    auth          \* a VlibeBaseAuth check: the user passed, the value returned

clientVars == <<channels, subscriptions, hook, auth>>

vars == <<products, orders, order_items, carts, last, ledger, added, tasks, report,
          channels, subscriptions, hook, auth>>

\* ------------------------------------------------------------ small helpers
RECURSIVE SumSeq(_)
SumSeq(s) == IF s = <<>> THEN 0 ELSE Head(s) + SumSeq(Tail(s))

\* All sequences over S of length 0..n.
SeqsUpTo(S, n) == UNION {[1 .. k -> S] : k \in 0 .. n}

\* Merge of object spread {...a, ...b}: b's fields win.
Spread(a, b) ==
    [f \in DOMAIN a \cup DOMAIN b |-> IF f \in DOMAIN b THEN b[f] ELSE a[f]]

\* crypto.randomUUID(): an id no record of the collection has.
NewId(coll) ==
    CHOOSE n \in 1 .. Len(coll) + 1 :
        /\ \A i \in DOMAIN coll : coll[i].id # n
        /\ \A m \in 1 .. n - 1 : \E i \in DOMAIN coll : coll[i].id = m

\* ------------------------------------------------------------ record store
DbInsert(coll, rec) == Append(coll, rec)

DbUpdate(coll, id, rec) ==
    [i \in DOMAIN coll |-> IF coll[i].id = id THEN Spread(coll[i], rec) ELSE coll[i]]

DbDelete(coll, id) == SelectSeq(coll, LAMBDA r : r.id # id)

DbHas(coll, id) == \E i \in DOMAIN coll : coll[i].id = id

DbGet(coll, id) == coll[CHOOSE i \in DOMAIN coll : coll[i].id = id]

\* ------------------------------------------------------ products, inventory
\* getProduct: the record, or null (here: absence from the domain).
HasProduct(prods, productId) == productId \in DOMAIN prods

\* Results carry err (the error thrown, "none" on normal return), the
\* collections left behind, and writes: the number of insert / update /
\* delete requests that were sent to the record store.
UpdateProduct(prods, productId, updates) ==
    IF ~HasProduct(prods, productId)
    THEN [err |-> "NotFound", products |-> prods, writes |-> 0]
    ELSE [err |-> "none",
          products |-> [prods EXCEPT ![productId] =
                            Spread(Spread(prods[productId], updates), [id |-> productId])],
          writes |-> 1]

NewStock(stock, quantity, operation) ==
    CASE operation = "set" -> quantity
      [] operation = "increment" -> stock + quantity
      [] operation = "decrement" -> stock - quantity

\* The first part of updateInventory, up to its call of updateProduct:
\* getProduct, then newStock and the floor check of 'decrement'.
ReadInventoryNoFloor(prods, productId, quantity, operation) ==
    IF ~HasProduct(prods, productId)
    THEN [err |-> "NotFound", newStock |-> 0]
    ELSE [err |-> "none",
          newStock |-> NewStock(prods[productId].stock, quantity, operation)]

ReadInventory(prods, productId, quantity, operation) ==
    IF ~HasProduct(prods, productId)
    THEN [err |-> "NotFound", newStock |-> 0]
    ELSE LET newStock == NewStock(prods[productId].stock, quantity, operation)
         IN  IF operation = "decrement" /\ newStock < 0
             THEN [err |-> "InsufficientStock", newStock |-> 0]
             ELSE [err |-> "none", newStock |-> newStock]

\* updateInventory without the floor check of 'decrement'.
UpdateInventoryNoFloor(prods, productId, quantity, operation) ==
    IF ~HasProduct(prods, productId)
    THEN [err |-> "NotFound", products |-> prods, writes |-> 0]
    ELSE UpdateProduct(prods, productId,
                       [stock |-> NewStock(prods[productId].stock, quantity, operation)])

UpdateInventory(prods, productId, quantity, operation) ==
    IF ~HasProduct(prods, productId)
    THEN [err |-> "NotFound", products |-> prods, writes |-> 0]
    ELSE LET newStock == NewStock(prods[productId].stock, quantity, operation)
         IN  IF operation = "decrement" /\ newStock < 0
             THEN [err |-> "InsufficientStock", products |-> prods, writes |-> 0]
             ELSE UpdateProduct(prods, productId, [stock |-> newStock])

\* bulkUpdateInventory that goes on after an entry failed and reports the
\* first error at the end.
RECURSIVE BulkUpdateInventoryContinues(_, _)
BulkUpdateInventoryContinues(prods, updates) ==
    IF updates = <<>>
    THEN [err |-> "none", products |-> prods, writes |-> 0]
    ELSE LET u == Head(updates)
             r == UpdateInventory(prods, u.productId, u.quantity, u.operation)
             rest == BulkUpdateInventoryContinues(r.products, Tail(updates))
         IN  [err |-> IF r.err # "none" THEN r.err ELSE rest.err,
              products |-> rest.products,
              writes |-> r.writes + rest.writes]

\* bulkUpdateInventory: entries one at a time, the first error aborts the rest.
RECURSIVE BulkUpdateInventory(_, _)
BulkUpdateInventory(prods, updates) ==
    IF updates = <<>>
    THEN [err |-> "none", products |-> prods, writes |-> 0]
    ELSE LET u == Head(updates)
             r == UpdateInventory(prods, u.productId, u.quantity, u.operation)
         IN  IF r.err # "none" THEN r
             ELSE LET rest == BulkUpdateInventory(r.products, Tail(updates))
                  IN  [rest EXCEPT !.writes = @ + r.writes]

\* ------------------------------------------------------------------- orders
\* Math.round(subtotal * 0.08): subtotal * 8 / 100 is never k + 1/2 for an
\* integer subtotal, so rounding to nearest is floor(x + 1/2) for either sign.
RoundedTax(subtotal) == (subtotal * TaxPercent + 50) \div 100

\* shipping that is already free at the threshold.
ShippingOfInclusive(subtotal) == IF subtotal >= FreeShippingOver THEN 0 ELSE ShippingFee

ShippingOf(subtotal) == IF subtotal > FreeShippingOver THEN 0 ELSE ShippingFee

\* calculatedItem whose inStock only asks for some stock.
CalculatedItemAnyStock(prods, item) ==
    LET product == prods[item.productId]
    IN  [productId |-> item.productId,
         name |-> product.name,
         price |-> product.price,
         quantity |-> item.quantity,
         lineTotal |-> product.price * item.quantity,
         inStock |-> product.stock > 0 \/ item.quantity <= 0]

CalculatedItem(prods, item) ==
    LET product == prods[item.productId]
    IN  [productId |-> item.productId,
         name |-> product.name,
         price |-> product.price,
         quantity |-> item.quantity,
         lineTotal |-> product.price * item.quantity,
         inStock |-> product.stock >= item.quantity]

NoCalculation(error) ==
    [err |-> error, subtotal |-> 0, tax |-> 0, shipping |-> 0, total |-> 0,
     items |-> <<>>]

\* calculateOrderTotal whose total leaves the shipping out.
CalculateOrderTotalNoShipping(prods, items) ==
    IF \E i \in DOMAIN items : ~HasProduct(prods, items[i].productId)
    THEN NoCalculation("NotFound")
    ELSE LET calculatedItems == [i \in DOMAIN items |-> CalculatedItem(prods, items[i])]
             subtotal == SumSeq([i \in DOMAIN items |-> calculatedItems[i].lineTotal])
         IN  IF \E i \in DOMAIN items : ~calculatedItems[i].inStock
             THEN NoCalculation("OutOfStock")
             ELSE [err |-> "none", subtotal |-> subtotal, tax |-> RoundedTax(subtotal),
                   shipping |-> ShippingOf(subtotal),
                   total |-> subtotal + RoundedTax(subtotal),
                   items |-> calculatedItems]

\* calculateOrderTotal: the loop throws at the first line whose product is
\* missing; the stock check runs after the loop, over all lines.
CalculateOrderTotal(prods, items) ==
    IF \E i \in DOMAIN items : ~HasProduct(prods, items[i].productId)
    THEN NoCalculation("NotFound")
    ELSE LET calculatedItems == [i \in DOMAIN items |-> CalculatedItem(prods, items[i])]
             subtotal == SumSeq([i \in DOMAIN items |-> calculatedItems[i].lineTotal])
             tax == RoundedTax(subtotal)
             shipping == ShippingOf(subtotal)
         IN  IF \E i \in DOMAIN items : ~calculatedItems[i].inStock
             THEN NoCalculation("OutOfStock")
             ELSE [err |-> "none", subtotal |-> subtotal, tax |-> tax,
                   shipping |-> shipping, total |-> subtotal + tax + shipping,
                   items |-> calculatedItems]

OrderItemOf(item) ==
    [productId |-> item.productId, name |-> item.name,
     quantity |-> item.quantity, price |-> item.price]

\* The loop of createOrder leaving after the first line.
InsertOrderItemsFirstOnly(oitems, orderId, orderItems) ==
    IF orderItems = <<>> THEN oitems
    ELSE DbInsert(oitems,
                  Spread(Spread([id |-> NewId(oitems), orderId |-> orderId],
                                Head(orderItems)),
                         [lineTotal |-> Head(orderItems).price * Head(orderItems).quantity]))

\* The loop of createOrder that inserts one order_items record per line.
RECURSIVE InsertOrderItems(_, _, _)
InsertOrderItems(oitems, orderId, orderItems) ==
    IF orderItems = <<>> THEN oitems
    ELSE InsertOrderItems(
             DbInsert(oitems,
                      Spread(Spread([id |-> NewId(oitems), orderId |-> orderId],
                                    Head(orderItems)),
                             [lineTotal |-> Head(orderItems).price * Head(orderItems).quantity])),
             orderId, Tail(orderItems))

DecrementsNone(items) == <<>>

Decrements(items) ==
    [i \in DOMAIN items |-> [productId |-> items[i].productId,
                             quantity |-> items[i].quantity,
                             operation |-> "decrement"]]

\* createOrder that reduces the inventory before it inserts the order.
CreateOrderDecrementsFirst(prods, ords, oitems, input) ==
    LET calculation == CalculateOrderTotal(prods, input.items)
        bulk == BulkUpdateInventory(prods, Decrements(input.items))
    IN  IF calculation.err # "none"
        THEN [err |-> calculation.err, products |-> prods, orders |-> ords,
              order_items |-> oitems, order |-> 0, writes |-> 0]
        ELSE IF bulk.err # "none"
        THEN [err |-> bulk.err, products |-> bulk.products, orders |-> ords,
              order_items |-> oitems, order |-> 0, writes |-> bulk.writes]
        ELSE LET orderItems == [i \in DOMAIN calculation.items |->
                                    OrderItemOf(calculation.items[i])]
                 order == [id |-> NewId(ords),
                           userId |-> input.userId,
                           status |-> "pending",
                           items |-> orderItems,
                           subtotal |-> calculation.subtotal,
                           tax |-> calculation.tax,
                           shipping |-> calculation.shipping,
                           total |-> calculation.total]
             IN  [err |-> "none", products |-> bulk.products,
                  orders |-> DbInsert(ords, order),
                  order_items |-> InsertOrderItems(oitems, order.id, orderItems),
                  order |-> order.id,
                  writes |-> 1 + Len(orderItems) + bulk.writes]

\* createOrder(input): input = [userId, items]; order = id of the order
\* returned, 0 when the call throws.
CreateOrder(prods, ords, oitems, input) ==
    LET calculation == CalculateOrderTotal(prods, input.items)
    IN  IF calculation.err # "none"
        THEN [err |-> calculation.err, products |-> prods, orders |-> ords,
              order_items |-> oitems, order |-> 0, writes |-> 0]
        ELSE LET orderItems == [i \in DOMAIN calculation.items |->
                                    OrderItemOf(calculation.items[i])]
                 order == [id |-> NewId(ords),
                           userId |-> input.userId,
                           status |-> "pending",
                           items |-> orderItems,
                           subtotal |-> calculation.subtotal,
                           tax |-> calculation.tax,
                           shipping |-> calculation.shipping,
                           total |-> calculation.total]
                 ords2 == DbInsert(ords, order)
                 oitems2 == InsertOrderItems(oitems, order.id, orderItems)
                 bulk == BulkUpdateInventory(prods, Decrements(input.items))
             IN  [err |-> bulk.err, products |-> bulk.products, orders |-> ords2,
                  order_items |-> oitems2,
                  order |-> IF bulk.err = "none" THEN order.id ELSE 0,
                  writes |-> 1 + Len(orderItems) + bulk.writes]

\* getOrder whose lines carry the line total as their price.
OrderLinesLineTotal(oitems, orderId) ==
    LET rows == SelectSeq(oitems, LAMBDA r : r.orderId = orderId)
    IN  [i \in DOMAIN rows |->
             [productId |-> rows[i].productId, name |-> rows[i].name,
              quantity |-> rows[i].quantity, price |-> rows[i].lineTotal]]

\* getOrder: the order record with its items re-read from order_items.
OrderLines(oitems, orderId) ==
    LET rows == SelectSeq(oitems, LAMBDA r : r.orderId = orderId)
    IN  [i \in DOMAIN rows |-> OrderItemOf(rows[i])]

GetOrder(ords, oitems, orderId) ==
    Spread(DbGet(ords, orderId), [items |-> OrderLines(oitems, orderId)])

\* updateOrderStatus that returns a delivered or cancelled order as it is.
UpdateOrderStatusKeepsTerminal(ords, oitems, orderId, status) ==
    IF ~DbHas(ords, orderId)
    THEN [err |-> "NotFound", orders |-> ords, writes |-> 0]
    ELSE IF DbGet(ords, orderId).status \in {"delivered", "cancelled"}
    THEN [err |-> "none", orders |-> ords, writes |-> 0]
    ELSE LET updated == Spread(GetOrder(ords, oitems, orderId), [status |-> status])
         IN  [err |-> "none", orders |-> DbUpdate(ords, orderId, updated), writes |-> 1]

\* updateOrderStatus that refuses to leave delivered and cancelled.
UpdateOrderStatusRejectsTerminal(ords, oitems, orderId, status) ==
    IF ~DbHas(ords, orderId)
    THEN [err |-> "NotFound", orders |-> ords, writes |-> 0]
    ELSE IF DbGet(ords, orderId).status \in {"delivered", "cancelled"}
    THEN [err |-> "InvalidTransition", orders |-> ords, writes |-> 0]
    ELSE LET updated == Spread(GetOrder(ords, oitems, orderId), [status |-> status])
         IN  [err |-> "none", orders |-> DbUpdate(ords, orderId, updated), writes |-> 1]

UpdateOrderStatus(ords, oitems, orderId, status) ==
    IF ~DbHas(ords, orderId)
    THEN [err |-> "NotFound", orders |-> ords, writes |-> 0]
    ELSE LET updated == Spread(GetOrder(ords, oitems, orderId), [status |-> status])
         IN  [err |-> "none", orders |-> DbUpdate(ords, orderId, updated), writes |-> 1]

Increments(items) ==
    [i \in DOMAIN items |-> [productId |-> items[i].productId,
                             quantity |-> items[i].quantity,
                             operation |-> "increment"]]

\* cancelOrder without the early return for an order already cancelled.
CancelOrderAgain(prods, ords, oitems, orderId, restoreInventory) ==
    IF ~DbHas(ords, orderId)
    THEN [err |-> "NotFound", products |-> prods, orders |-> ords, writes |-> 0]
    ELSE LET order == GetOrder(ords, oitems, orderId)
             bulk == IF restoreInventory
                     THEN BulkUpdateInventory(prods, Increments(order.items))
                     ELSE [err |-> "none", products |-> prods, writes |-> 0]
             upd == UpdateOrderStatus(ords, oitems, orderId, "cancelled")
         IN  [err |-> bulk.err, products |-> bulk.products, orders |-> upd.orders,
              writes |-> bulk.writes + upd.writes]

CancelOrder(prods, ords, oitems, orderId, restoreInventory) ==
    IF ~DbHas(ords, orderId)
    THEN [err |-> "NotFound", products |-> prods, orders |-> ords, writes |-> 0]
    ELSE LET order == GetOrder(ords, oitems, orderId)
         IN  IF order.status = "cancelled"
             THEN [err |-> "none", products |-> prods, orders |-> ords, writes |-> 0]
             ELSE LET bulk == IF restoreInventory
                              THEN BulkUpdateInventory(prods, Increments(order.items))
                              ELSE [err |-> "none", products |-> prods, writes |-> 0]
                      upd == UpdateOrderStatus(ords, oitems, orderId, "cancelled")
                  IN  IF bulk.err # "none"
                      THEN [err |-> bulk.err, products |-> bulk.products,
                            orders |-> ords, writes |-> bulk.writes]
                      ELSE [err |-> upd.err, products |-> bulk.products,
                            orders |-> upd.orders, writes |-> bulk.writes + upd.writes]

\* --------------------------------------------------------------------- cart
\* db.query('carts', {where: {userId, productId}}) and {where: {userId}}.
CartRowsFor(crts, userId, productId) ==
    SelectSeq(crts, LAMBDA r : r.userId = userId /\ r.productId = productId)

CartRows(crts, userId) == SelectSeq(crts, LAMBDA r : r.userId = userId)

GetCart(crts, userId) ==
    LET rows == CartRows(crts, userId)
    IN  [i \in DOMAIN rows |-> [productId |-> rows[i].productId,
                                quantity |-> rows[i].quantity]]

\* addToCart that inserts a row without looking for an existing one.
AddToCartAlwaysInsert(crts, userId, item) ==
    LET crts2 == DbInsert(crts, [id |-> NewId(crts), userId |-> userId,
                                 productId |-> item.productId,
                                 quantity |-> item.quantity])
    IN  [err |-> "none", carts |-> crts2, ret |-> GetCart(crts2, userId), writes |-> 1]

AddToCart(crts, userId, item) ==
    LET existingCart == CartRowsFor(crts, userId, item.productId)
        crts2 == IF Len(existingCart) > 0
                 THEN LET existing == existingCart[1]
                      IN  DbUpdate(crts, existing.id,
                                   Spread(existing,
                                          [quantity |-> existing.quantity + item.quantity]))
                 ELSE DbInsert(crts, [id |-> NewId(crts), userId |-> userId,
                                      productId |-> item.productId,
                                      quantity |-> item.quantity])
    IN  [err |-> "none", carts |-> crts2, ret |-> GetCart(crts2, userId), writes |-> 1]

\* updateCartItem that stores quantity 0 instead of deleting the row.
UpdateCartItemStoresZero(crts, userId, productId, quantity) ==
    LET items == CartRowsFor(crts, userId, productId)
    IN  IF Len(items) = 0
        THEN [err |-> "NotFound", carts |-> crts, ret |-> <<>>, writes |-> 0]
        ELSE LET crts2 == DbUpdate(crts, items[1].id,
                                   Spread(items[1], [quantity |-> quantity]))
             IN  [err |-> "none", carts |-> crts2, ret |-> GetCart(crts2, userId),
                  writes |-> 1]

UpdateCartItem(crts, userId, productId, quantity) ==
    LET items == CartRowsFor(crts, userId, productId)
    IN  IF Len(items) = 0
        THEN [err |-> "NotFound", carts |-> crts, ret |-> <<>>, writes |-> 0]
        ELSE LET item == items[1]
                 crts2 == IF quantity = 0
                          THEN DbDelete(crts, item.id)
                          ELSE DbUpdate(crts, item.id,
                                        Spread(item, [quantity |-> quantity]))
             IN  [err |-> "none", carts |-> crts2, ret |-> GetCart(crts2, userId),
                  writes |-> 1]

\* clearCart: one delete per row the query returned.
RECURSIVE DeleteRows(_, _)
DeleteRows(crts, rows) ==
    IF rows = <<>> THEN crts
    ELSE DeleteRows(DbDelete(crts, Head(rows).id), Tail(rows))

ClearCart(crts, userId) ==
    LET items == CartRows(crts, userId)
    IN  [err |-> "none", carts |-> DeleteRows(crts, items), writes |-> Len(items)]

\* checkout that clears the cart whether or not createOrder returned.
CheckoutClearsAnyway(prods, ords, oitems, crts, userId) ==
    LET cart == GetCart(crts, userId)
    IN  IF Len(cart) = 0
        THEN [err |-> "EmptyCart", products |-> prods, orders |-> ords,
              order_items |-> oitems, carts |-> crts, order |-> 0, writes |-> 0]
        ELSE LET created == CreateOrder(prods, ords, oitems,
                                        [userId |-> userId, items |-> cart])
                 cleared == ClearCart(crts, userId)
             IN  [err |-> created.err, products |-> created.products,
                  orders |-> created.orders, order_items |-> created.order_items,
                  carts |-> cleared.carts, order |-> created.order,
                  writes |-> created.writes + cleared.writes]

\* checkout without the empty-cart check.
CheckoutAnyCart(prods, ords, oitems, crts, userId) ==
    LET created == CreateOrder(prods, ords, oitems,
                               [userId |-> userId, items |-> GetCart(crts, userId)])
        cleared == ClearCart(crts, userId)
    IN  IF created.err # "none"
        THEN [err |-> created.err, products |-> created.products,
              orders |-> created.orders, order_items |-> created.order_items,
              carts |-> crts, order |-> 0, writes |-> created.writes]
        ELSE [err |-> "none", products |-> created.products,
              orders |-> created.orders, order_items |-> created.order_items,
              carts |-> cleared.carts, order |-> created.order,
              writes |-> created.writes + cleared.writes]

Checkout(prods, ords, oitems, crts, userId) ==
    LET cart == GetCart(crts, userId)
    IN  IF Len(cart) = 0
        THEN [err |-> "EmptyCart", products |-> prods, orders |-> ords,
              order_items |-> oitems, carts |-> crts, order |-> 0, writes |-> 0]
        ELSE LET created == CreateOrder(prods, ords, oitems,
                                        [userId |-> userId, items |-> cart])
                 cleared == ClearCart(crts, userId)
             IN  IF created.err # "none"
                 THEN [err |-> created.err, products |-> created.products,
                       orders |-> created.orders, order_items |-> created.order_items,
                       carts |-> crts, order |-> 0, writes |-> created.writes]
                 ELSE [err |-> "none", products |-> created.products,
                       orders |-> created.orders, order_items |-> created.order_items,
                       carts |-> cleared.carts, order |-> created.order,
                       writes |-> created.writes + cleared.writes]

\* ---------------------------------------------------------------- analytics
\* Dates are instants counted from the midnight that begins a Sunday.
\* getPeriodStart for 'day' and 'week' ('month' and 'year' need a calendar
\* and are not represented).
GetPeriodStart(date, period) ==
    IF period = "day"
    THEN date - (date % TicksPerDay)
    ELSE LET day == date \div TicksPerDay
         IN  (day - (day % DaysPerWeek)) * TicksPerDay

\* Math.round(n / d) for d > 0: halves go up.
RoundDiv(n, d) == (2 * n + d) \div (2 * d)

SumTotals(ords) == SumSeq([i \in DOMAIN ords |-> ords[i].total])

\* getRevenueStats(period) called at instant now.  trend is in hundredths of
\* a percent: Math.round(x * 100) / 100 keeps two decimals.  The quotient
\* averageOrderValue is not represented.
GetRevenueStats(ords, now, period) ==
    LET periodStart == GetPeriodStart(now, period)
        previousPeriodStart == GetPeriodStart(periodStart, period)
        currentOrders == SelectSeq(ords, LAMBDA o : o.created_at >= periodStart)
        previousOrders == SelectSeq(ords, LAMBDA o : /\ o.created_at >= previousPeriodStart
                                                     /\ o.created_at < periodStart)
        totalRevenue == SumTotals(currentOrders)
        previousRevenue == SumTotals(previousOrders)
        totalOrders == Len(currentOrders)
        previousOrderCount == Len(previousOrders)
    IN  [totalRevenue |-> totalRevenue,
         totalOrders |-> totalOrders,
         trend |-> [revenue |-> IF previousRevenue > 0
                                THEN RoundDiv((totalRevenue - previousRevenue) * 10000,
                                              previousRevenue)
                                ELSE 0,
                    orders |-> IF previousOrderCount > 0
                               THEN RoundDiv((totalOrders - previousOrderCount) * 10000,
                                             previousOrderCount)
                               ELSE 0]]

\* createOrder called at instant now: the order record carries created_at.
CreateOrderAt(prods, ords, oitems, input, now) ==
    LET r == CreateOrder(prods, ords, oitems, input)
    IN  IF r.orders = ords THEN r
        ELSE [r EXCEPT !.orders = DbUpdate(r.orders, NewId(ords), [created_at |-> now])]

\* The item lists of the order records, one after the other.
RECURSIVE AllItems(_)
AllItems(ords) ==
    IF ords = <<>> THEN <<>> ELSE Head(ords).items \o AllItems(Tail(ords))

\* productMap after the loop over the items: one entry per productId, in
\* the order of first appearance.
RECURSIVE Aggregate(_, _)
Aggregate(stats, lines) ==
    IF lines = <<>> THEN stats
    ELSE LET item == Head(lines)
             existing == {i \in DOMAIN stats : stats[i].productId = item.productId}
         IN  Aggregate(IF existing = {}
                       THEN Append(stats, [productId |-> item.productId,
                                           name |-> item.name,
                                           totalSold |-> item.quantity,
                                           revenue |-> item.price * item.quantity])
                       ELSE [i \in DOMAIN stats |->
                                IF i \in existing
                                THEN [stats[i] EXCEPT
                                        !.totalSold = @ + item.quantity,
                                        !.revenue = @ + item.price * item.quantity]
                                ELSE stats[i]],
                       Tail(lines))

\* stats.sort((a, b) => b.revenue - a.revenue): stable, highest revenue first.
RECURSIVE SortByRevenue(_)
SortByRevenue(stats) ==
    IF stats = <<>> THEN <<>>
    ELSE LET rest == SortByRevenue(Tail(stats))
             k == Cardinality({i \in DOMAIN rest : rest[i].revenue > Head(stats).revenue})
         IN  SubSeq(rest, 1, k) \o <<Head(stats)>> \o SubSeq(rest, k + 1, Len(rest))

\* stats.slice(0, limit) for limit >= 0.
Slice(stats, limit) ==
    SubSeq(stats, 1, IF limit < Len(stats) THEN limit ELSE Len(stats))

FilteredOrders(ords, period, now) ==
    IF period = "none" THEN ords
    ELSE SelectSeq(ords, LAMBDA o : o.created_at >= GetPeriodStart(now, period))

GetTopProductsUnsorted(ords, limit, period, now) ==
    Slice(Aggregate(<<>>, AllItems(FilteredOrders(ords, period, now))), limit)

\* getTopProducts(limit, period) called at instant now; period "none" is
\* the call without a period.
GetTopProducts(ords, limit, period, now) ==
    Slice(SortByRevenue(Aggregate(<<>>, AllItems(FilteredOrders(ords, period, now)))),
          limit)

\* ------------------------------------------------------------ initial state
InitProducts ==
    [p \in Products |-> [id |-> p, name |-> InitName[p], price |-> InitPrice[p],
                         stock |-> InitStock[p], isActive |-> TRUE]]

\* What a createOrder input looks like against the stock it meets: exceeds,
\* some line asks for more than the stock of its product; missing, some line
\* names a product that has no record.
LinesAgainstStock(prods, items) ==
    [exceeds |-> \E i \in DOMAIN items :
                    /\ HasProduct(prods, items[i].productId)
                    /\ items[i].quantity > prods[items[i].productId].stock,
     missing |-> \E i \in DOMAIN items : ~HasProduct(prods, items[i].productId)]

\* The summary of a call that is given no line list.
NoLines == [exceeds |-> FALSE, missing |-> FALSE]

\* The record of a completed call: method, parameters (createOrder: the user;
\* its line list is summarised in pre), error thrown, number of write
\* requests sent, cart returned (addToCart) and id of the order returned
\* (createOrder, checkout; 0 for none).
Called(op, params, pre, r, cart, order) ==
    [op |-> op, params |-> params, pre |-> pre, err |-> r.err,
     writes |-> r.writes, cart |-> cart, order |-> order]

NoCall == [op |-> "none", params |-> <<>>, pre |-> NoLines, err |-> "none",
           writes |-> 0, cart |-> <<>>, order |-> 0]

\* History of addToCart per (user, product): calls is 1 when addToCart, and
\* no other method, has written the row since it was last absent, 0 when
\* nothing has, -1 when another method has written the row; sum is the sum
\* of the quantities added.
FreshAdded == [calls |-> 0, sum |-> 0]
VoidAdded == [calls |-> 0 - 1, sum |-> 0]
NoAdded == [u \in Users |-> [p \in ProductIds |-> FreshAdded]]

\* A caller with no call in flight.  A call in flight holds the parameters
\* it was given, newStock as computed by updateInventory, and the record
\* updateProduct has read (existing: empty until it is read).
Callers == {"a", "b"}
IdleTask == [pc |-> "idle", productId |-> "", quantity |-> 0, operation |-> "",
             newStock |-> 0, existing |-> <<>>, err |-> "none", updates |-> <<>>,
             orderId |-> 0, order |-> <<>>, i |-> 0,
             userId |-> "", rows |-> <<>>, cart |-> <<>>]
NoTasks == [c \in Callers |-> IdleTask]

\* No analytics call made yet.
NoStats == [totalRevenue |-> 0, totalOrders |-> 0,
            trend |-> [revenue |-> 0, orders |-> 0]]
NoReport == [op |-> "none", now |-> 0, period |-> "", limit |-> 0,
             stats |-> NoStats, top |-> <<>>]

\* new Map(): no channel name has a channel.
NoSubscriptions == [name \in {} |-> 0]

\* A useCollection with realtime enabled as it is mounted: useState([])
\* over an empty collection (docs, in the store; made counts the documents
\* ever inserted), no query in flight, no realtime event on its way.
NoHook == [docs |-> <<>>, made |-> 0, refresh |-> "idle", result |-> <<>>,
           events |-> <<>>, data |-> <<>>]

\* No VlibeBaseAuth check made; the user null is the empty sequence, a user
\* object the sequence of one record.
NoAuth == [user |-> <<>>, called |-> FALSE, result |-> FALSE]

\* History of the inventory per product: base is the stock when the current
\* run of increment / decrement calls began, net the sum of the quantities
\* incremented minus the sum of the quantities of the decrements that
\* returned normally.
FreshLedger(prods) == [p \in Products |-> [base |-> prods[p].stock, net |-> 0]]

Init ==
    /\ products = InitProducts
    /\ orders = <<>>
    /\ order_items = <<>>
    /\ carts = <<>>
    /\ last = NoCall
    /\ ledger = FreshLedger(InitProducts)
    /\ added = NoAdded
    /\ tasks = NoTasks
    /\ report = NoReport
    /\ channels = <<>>
    /\ subscriptions = NoSubscriptions
    /\ hook = NoHook
    /\ auth = NoAuth

\* ------------------------------------------------------------------ actions
StockOk(prods) ==
    \A p \in Products : prods[p].stock \in (0 - MaxStock) .. MaxStock

UpdateInventoryStep(p, q, operation) ==
    \E r \in {UpdateInventory(products, p, q, operation)} :
        /\ StockOk(r.products)
        /\ products' = r.products
        /\ last' = Called("updateInventory", <<p, q, operation>>, NoLines, r, <<>>, 0)
        /\ ledger' = IF r.err # "none" THEN ledger
                     ELSE IF operation = "set"
                          THEN [ledger EXCEPT ![p] = [base |-> q, net |-> 0]]
                          ELSE IF operation = "increment"
                               THEN [ledger EXCEPT ![p].net = @ + q]
                               ELSE [ledger EXCEPT ![p].net = @ - q]
        /\ UNCHANGED <<orders, order_items, carts, added>>
        /\ UNCHANGED <<tasks, report, clientVars>>

\* updateProduct(productId, updates): a change of stock starts a new run of
\* the inventory history.
UpdateProductStep(p, updates) ==
    \E r \in {UpdateProduct(products, p, updates)} :
        /\ StockOk(r.products)
        /\ products' = r.products
        /\ last' = Called("updateProduct", <<p, updates>>, NoLines, r, <<>>, 0)
        /\ ledger' = IF r.err = "none" /\ "stock" \in DOMAIN updates
                     THEN [ledger EXCEPT ![p] = [base |-> updates.stock, net |-> 0]]
                     ELSE ledger
        /\ UNCHANGED <<orders, order_items, carts, added>>
        /\ UNCHANGED <<tasks, report, clientVars>>

\* bulkUpdateInventory(updates); the inventory history records single
\* updateInventory calls only.
BulkUpdateInventoryStep(updates) ==
    \E r \in {BulkUpdateInventory(products, updates)} :
        /\ StockOk(r.products)
        /\ products' = r.products
        /\ last' = Called("bulkUpdateInventory", <<updates>>, NoLines, r, <<>>, 0)
        /\ UNCHANGED <<orders, order_items, carts, ledger, added>>
        /\ UNCHANGED <<tasks, report, clientVars>>

\* updateInventory by caller c, one round trip to the record store at a
\* time.  First round trip: getProduct, newStock, the floor check.
Thrown(error) == [err |-> error, writes |-> 0]

UpdateInventoryCall(c, p, q, operation) ==
    /\ tasks[c].pc = "idle"
    /\ \E r \in {ReadInventory(products, p, q, operation)} :
           LET t == [IdleTask EXCEPT !.productId = p, !.quantity = q,
                                     !.operation = operation]
           IN  IF r.err # "none"
               THEN /\ tasks' = [tasks EXCEPT ![c] = [t EXCEPT !.pc = "done", !.err = r.err]]
                    /\ last' = Called("updateInventory", <<p, q, operation>>, NoLines,
                                      Thrown(r.err), <<>>, 0)
               ELSE /\ tasks' = [tasks EXCEPT ![c] =
                                     [t EXCEPT !.pc = "updateProduct", !.newStock = r.newStock]]
                    /\ last' = last
    /\ UNCHANGED <<products, orders, order_items, carts, ledger, added, report, clientVars>>

\* Second round trip: the getProduct of updateProduct.
UpdateProductRead(c) ==
    LET t == tasks[c]
    IN  /\ t.pc = "updateProduct"
        /\ IF ~HasProduct(products, t.productId)
           THEN /\ tasks' = [tasks EXCEPT ![c] = [t EXCEPT !.pc = "done", !.err = "NotFound"]]
                /\ last' = Called("updateInventory", <<t.productId, t.quantity, t.operation>>,
                                  NoLines, Thrown("NotFound"), <<>>, 0)
           ELSE /\ tasks' = [tasks EXCEPT ![c] =
                                 [t EXCEPT !.pc = "write", !.existing = <<products[t.productId]>>]]
                /\ last' = last
        /\ UNCHANGED <<products, orders, order_items, carts, ledger, added, report, clientVars>>

\* Third round trip: db.update stores the record read with the new stock.
UpdateProductWrite(c) ==
    LET t == tasks[c]
    IN  /\ t.pc = "write"
        /\ products' = [products EXCEPT ![t.productId] =
                            Spread(Spread(t.existing[1], [stock |-> t.newStock]),
                                   [id |-> t.productId])]
        /\ tasks' = [tasks EXCEPT ![c] = [t EXCEPT !.pc = "done"]]
        /\ last' = Called("updateInventory", <<t.productId, t.quantity, t.operation>>,
                          NoLines, [err |-> "none", writes |-> 1], <<>>, 0)
        /\ UNCHANGED <<orders, order_items, carts, ledger, added, report, clientVars>>

CartQtyOk(crts) ==
    /\ Len(crts) <= MaxCartRows
    /\ \A i \in DOMAIN crts : crts[i].quantity \in CartQty

AddToCartStep(u, item) ==
    \E r \in {AddToCart(carts, u, item)} :
        LET a == added[u][item.productId]
        IN  /\ CartQtyOk(r.carts)
            /\ carts' = r.carts
            /\ last' = Called("addToCart", <<u, item.productId, item.quantity>>,
                              NoLines, r, r.ret, 0)
            /\ added' = [added EXCEPT ![u][item.productId] =
                            IF a.calls < 0 THEN a
                            ELSE [calls |-> 1, sum |-> a.sum + item.quantity]]
            /\ UNCHANGED <<products, orders, order_items, ledger>>
            /\ UNCHANGED <<tasks, report, clientVars>>

UpdateCartItemStep(u, p, q) ==
    \E r \in {UpdateCartItem(carts, u, p, q)} :
        /\ carts' = r.carts
        /\ last' = Called("updateCartItem", <<u, p, q>>, NoLines, r, <<>>, 0)
        /\ added' = IF r.err # "none" THEN added
                    ELSE [added EXCEPT ![u][p] = IF q = 0 THEN FreshAdded ELSE VoidAdded]
        /\ UNCHANGED <<products, orders, order_items, ledger>>
        /\ UNCHANGED <<tasks, report, clientVars>>

ClearCartStep(u) ==
    \E r \in {ClearCart(carts, u)} :
        /\ carts' = r.carts
        /\ last' = Called("clearCart", <<u>>, NoLines, r, <<>>, 0)
        /\ added' = [added EXCEPT ![u] = [p \in ProductIds |-> FreshAdded]]
        /\ UNCHANGED <<products, orders, order_items, ledger>>
        /\ UNCHANGED <<tasks, report, clientVars>>

CheckoutStep(u) ==
    \E r \in {Checkout(products, orders, order_items, carts, u)} :
        /\ Len(r.orders) <= MaxOrders
        /\ products' = r.products
        /\ orders' = r.orders
        /\ order_items' = r.order_items
        /\ carts' = r.carts
        /\ last' = Called("checkout", <<u>>, NoLines, r, <<>>, r.order)
        /\ added' = IF r.err # "none" THEN added
                    ELSE [added EXCEPT ![u] = [p \in ProductIds |-> FreshAdded]]
        /\ UNCHANGED ledger
        /\ UNCHANGED <<tasks, report, clientVars>>

CreateOrderStep(u, items) ==
    \E r \in {CreateOrder(products, orders, order_items, [userId |-> u, items |-> items])} :
        /\ Len(r.orders) <= MaxOrders
        /\ StockOk(r.products)
        /\ products' = r.products
        /\ orders' = r.orders
        /\ order_items' = r.order_items
        /\ last' = Called("createOrder", <<u>>, LinesAgainstStock(products, items),
                          r, <<>>, r.order)
        /\ UNCHANGED <<carts, ledger, added>>
        /\ UNCHANGED <<tasks, report, clientVars>>

UpdateOrderStatusStep(id, status) ==
    \E r \in {UpdateOrderStatus(orders, order_items, id, status)} :
        /\ orders' = r.orders
        /\ last' = Called("updateOrderStatus", <<id, status>>, NoLines, r, <<>>, 0)
        /\ UNCHANGED <<products, order_items, carts, ledger, added>>
        /\ UNCHANGED <<tasks, report, clientVars>>

CancelOrderStep(id, restoreInventory) ==
    \E r \in {CancelOrder(products, orders, order_items, id, restoreInventory)} :
        /\ StockOk(r.products)
        /\ products' = r.products
        /\ orders' = r.orders
        /\ last' = Called("cancelOrder", <<id, restoreInventory>>, NoLines, r, <<>>, 0)
        /\ UNCHANGED <<order_items, carts, ledger, added>>
        /\ UNCHANGED <<tasks, report, clientVars>>

\* ----------------------------------------------- order lifecycle (Spec)
OrderLineInputs == [productId : ProductIds, quantity : OrderQty]
\* Orders of no line, one line and two lines, repeated products included.
OrderInputs == SeqsUpTo(OrderLineInputs, 2)
OrderIds == 1 .. MaxOrders + 1
\* createOrder only stores the userId it is given: one user places the orders.
OrderUsers == {"u1"}
\* cancelOrder tells "cancelled" from every other status and from nothing
\* else: "shipped" stands for the statuses that are neither new nor cancelled.
StatusInputs == {"pending", "shipped", "cancelled"}

Next ==
    \/ \E u \in OrderUsers, items \in OrderInputs : CreateOrderStep(u, items)
    \/ \E id \in OrderIds, status \in StatusInputs :
           UpdateOrderStatusStep(id, status)
    \/ \E id \in OrderIds, restore \in BOOLEAN : CancelOrderStep(id, restore)

Spec == Init /\ [][Next]_vars

\* ------------------------------------------- inventory (SpecInventory)
InitInventory ==
    /\ \E st \in [Products -> 0 .. MaxStock] :
           /\ products = [p \in Products |-> [InitProducts[p] EXCEPT !.stock = st[p]]]
           /\ ledger = [p \in Products |-> [base |-> st[p], net |-> 0]]
    /\ orders = <<>>
    /\ order_items = <<>>
    /\ carts = <<>>
    /\ last = NoCall
    /\ added = NoAdded
    /\ tasks = NoTasks
    /\ report = NoReport
    /\ channels = <<>>
    /\ subscriptions = NoSubscriptions
    /\ hook = NoHook
    /\ auth = NoAuth

NextInventory ==
    \E p \in ProductIds, q \in Qty, operation \in Operations :
        UpdateInventoryStep(p, q, operation)

SpecInventory == InitInventory /\ [][NextInventory]_vars

\* ------------------------------------------------------ cart (SpecCart)
CartLineInputs == [productId : Products, quantity : CartQty]

NextCart ==
    \/ \E u \in Users, item \in CartLineInputs : AddToCartStep(u, item)
    \/ \E u \in Users, p \in Products, q \in CartQty : UpdateCartItemStep(u, p, q)
    \/ \E u \in Users : ClearCartStep(u)

SpecCart == Init /\ [][NextCart]_vars

\* ---------------------------------------------- checkout (SpecCheckout)
CheckoutLineInputs == [productId : ProductIds, quantity : OrderQty]

NextCheckout ==
    \/ \E u \in Users, item \in CheckoutLineInputs : AddToCartStep(u, item)
    \/ \E u \in Users : CheckoutStep(u)

SpecCheckout == Init /\ [][NextCheckout]_vars

\* ------------------------------------- products and orders (SpecSnapshot)
\* Orders of up to two lines.
SnapshotLines == {[productId |-> "p1", quantity |-> 1],
                  [productId |-> "p1", quantity |-> 2],
                  [productId |-> "p2", quantity |-> 1]}
SnapshotOrders == SeqsUpTo(SnapshotLines, 2)
\* updates: Partial<Product> -- a new price, a new name.
ProductUpdates == {[price |-> 7], [name |-> "Gamma"]}

NextSnapshot ==
    \/ \E u \in OrderUsers, items \in SnapshotOrders : CreateOrderStep(u, items)
    \/ \E p \in {"p1", "px"}, updates \in ProductUpdates : UpdateProductStep(p, updates)
    \/ \E p \in Products, operation \in {"set", "decrement"} :
           UpdateInventoryStep(p, InitStock[p], operation)

SpecSnapshot == Init /\ [][NextSnapshot]_vars

\* --------------------------------------------- bulk inventory (SpecBulk)
\* Entries of one unit, on products that exist and on one that does not;
\* lists of up to three entries.
BulkEntries == [productId : ProductIds, quantity : {1},
                operation : {"increment", "decrement"}]
BulkInputs == SeqsUpTo(BulkEntries, 3)

NextBulk == \E updates \in BulkInputs : BulkUpdateInventoryStep(updates)

SpecBulk == Init /\ [][NextBulk]_vars

\* ---------------------------------------------- order status (SpecStatus)
\* Orders of one line, and every status of Order['status'].
StatusOrders == {<<[productId |-> "p1", quantity |-> 1]>>,
                 <<[productId |-> "p2", quantity |-> 1]>>}

NextStatus ==
    \/ \E u \in OrderUsers, items \in StatusOrders : CreateOrderStep(u, items)
    \/ \E id \in OrderIds, status \in Statuses : UpdateOrderStatusStep(id, status)
    \/ \E id \in OrderIds, restore \in BOOLEAN : CancelOrderStep(id, restore)

SpecStatus == Init /\ [][NextStatus]_vars

\* ------------------------------------ overlapping decrements (SpecRace)
\* Each caller makes one updateInventory(p, q, 'decrement') call; the round
\* trips of the two calls interleave in any order.  ledger keeps the stock
\* the calls started from.
NextRace ==
    \/ \E c \in Callers, p \in ProductIds, q \in OrderQty :
           UpdateInventoryCall(c, p, q, "decrement")
    \/ \E c \in Callers : UpdateProductRead(c)
    \/ \E c \in Callers : UpdateProductWrite(c)

SpecRace == InitInventory /\ [][NextRace]_vars

\* ================================================================== claims
Stock(p) == products[p].stock

\* C1: under any sequence of completed updateInventory increment / decrement
\* calls the stock of every product is the stock the sequence started from
\* plus the quantities incremented minus the quantities of the decrements
\* that succeeded; and a decrement asking for more than the current stock
\* fails with the insufficient-stock error and leaves every stock as it was.
LedgerBalanced == \A p \in Products : Stock(p) = ledger[p].base + ledger[p].net

DecrementFloor ==
    (/\ last'.op = "updateInventory"
     /\ last'.params[3] = "decrement"
     /\ last'.params[1] \in Products
     /\ last'.params[2] > Stock(last'.params[1]))
    => (last'.err = "InsufficientStock" /\ products' = products)

C1_StockLedger == []LedgerBalanced /\ [][DecrementFloor]_vars

C1_Witness ==
    /\ last.op = "updateInventory"
    /\ last.params[3] = "decrement"
    /\ last.err = "InsufficientStock"
    /\ \E p \in Products : ledger[p].net > 0 /\ Stock(p) > ledger[p].base

\* C2: the stock of every product is >= 0 in every reachable state, whatever
\* integer quantities updateInventory is called with.
C2_StockNeverNegative == \A p \in Products : Stock(p) >= 0

\* C3: every order record in the orders collection has
\* total = subtotal + tax + shipping.
C3_TotalIsSum ==
    \A i \in DOMAIN orders :
        orders[i].total = orders[i].subtotal + orders[i].tax + orders[i].shipping

C3_Witness ==
    \E i \in DOMAIN orders :
        /\ orders[i].subtotal > FreeShippingOver
        /\ orders[i].tax > 0
        /\ orders[i].status = "cancelled"

Unwritten ==
    /\ orders' = orders
    /\ order_items' = order_items
    /\ products' = products

\* C4 as claimed: a createOrder with a line that asks for more than the stock
\* of its product fails with the out-of-stock error and leaves orders,
\* order_items and every stock unchanged.
C4_OutOfStockAlways ==
    [][(last'.op = "createOrder" /\ last'.pre.exceeds)
       => (last'.err = "OutOfStock" /\ Unwritten)]_vars

\* C4 as amended: such a createOrder fails, with the out-of-stock error when
\* every line names an existing product and with the not-found error when
\* some line does not, and leaves orders, order_items and every stock
\* unchanged (no write request is sent).
C4_FailsUnwritten ==
    [][(last'.op = "createOrder" /\ last'.pre.exceeds)
       => /\ last'.err = IF last'.pre.missing THEN "NotFound" ELSE "OutOfStock"
          /\ last'.writes = 0
          /\ Unwritten]_vars

C4_Witness ==
    /\ last.op = "createOrder"
    /\ last.pre.exceeds
    /\ ~last.pre.missing
    /\ last.err = "OutOfStock"
    /\ Len(orders) = 1

\* Sum of the quantities of the lines for product p.
QtyFor(lines, p) ==
    SumSeq([i \in DOMAIN lines |-> IF lines[i].productId = p THEN lines[i].quantity ELSE 0])

\* C5: cancelOrder(id, true) on an order that is not cancelled adds to the
\* stock of each product the quantity of the order's lines for it and stores
\* status cancelled; cancelOrder on an order already cancelled changes no
\* stock and no order.
CancelEffect ==
    (last'.op = "cancelOrder" /\ DbHas(orders, last'.params[1]))
    => LET id == last'.params[1]
       IN  IF DbGet(orders, id).status = "cancelled"
           THEN /\ products' = products
                /\ orders' = orders
                /\ last'.err = "none"
           ELSE last'.params[2]
                => /\ \A p \in Products :
                       products'[p].stock =
                           Stock(p) + QtyFor(OrderLines(order_items, id), p)
                   /\ DbGet(orders', id).status = "cancelled"
                   /\ last'.err = "none"

C5_CancelRestoresOnce == [][CancelEffect]_vars

C5_Witness ==
    /\ last.op = "cancelOrder"
    /\ last.params[2]
    /\ last.err = "none"
    /\ last.writes = 0
    /\ DbHas(orders, last.params[1])
    /\ DbGet(orders, last.params[1]).status = "cancelled"
    /\ \E p \in Products : QtyFor(OrderLines(order_items, last.params[1]), p) > 0
    /\ \A p \in Products : Stock(p) = InitStock[p]

\* C6: checkout clears the user's cart only after createOrder has returned:
\* when checkout fails the user's cart rows are what they were, when it
\* returns an order the user's cart is empty, and the carts collection
\* changes only in a checkout that persisted an order and returned it.
CheckoutCart ==
    last'.op = "checkout"
    => LET u == last'.params[1]
       IN  /\ last'.err # "none" => CartRows(carts', u) = CartRows(carts, u)
           /\ last'.err = "none" => (CartRows(carts', u) = <<>> /\ DbHas(orders', last'.order))
           /\ carts' # carts => (last'.err = "none" /\ Len(orders') = Len(orders) + 1)

C6_ClearAfterCreate == [][CheckoutCart]_vars

C6_Witness ==
    /\ last.op = "checkout"
    /\ last.err = "OutOfStock"
    /\ Len(CartRows(carts, last.params[1])) = 2

\* C7: checkout of a user whose cart has no rows fails with the empty-cart
\* error and changes no order, no order item, no stock and no cart row.
EmptyCartCheckout ==
    (last'.op = "checkout" /\ CartRows(carts, last'.params[1]) = <<>>)
    => /\ last'.err = "EmptyCart"
       /\ last'.writes = 0
       /\ Unwritten
       /\ carts' = carts

C7_EmptyCartFails == [][EmptyCartCheckout]_vars

C7_Witness ==
    /\ last.op = "checkout"
    /\ last.err = "EmptyCart"
    /\ Len(carts) > 0
    /\ CartRows(carts, last.params[1]) = <<>>

\* C8: after addToCart calls for one (user, product), starting with no row
\* for the pair, the carts collection holds exactly one row for the pair and
\* its quantity is the sum of the quantities added; addToCart returns the
\* user's current cart.
C8_OneRowWithSum ==
    /\ \A u \in Users, p \in ProductIds :
           added[u][p].calls >= 1
           => /\ Len(CartRowsFor(carts, u, p)) = 1
              /\ CartRowsFor(carts, u, p)[1].quantity = added[u][p].sum
    /\ last.op = "addToCart" => last.cart = GetCart(carts, last.params[1])

C8_Witness ==
    /\ last.op = "addToCart"
    /\ last.params[3] = 1
    /\ added[last.params[1]][last.params[2]] = [calls |-> 1, sum |-> 2]
    /\ Len(last.cart) = 2

\* C9: every row of the carts collection has a quantity > 0.
C9_CartQuantitiesPositive == \A i \in DOMAIN carts : carts[i].quantity > 0

\* C10: updateCartItem(u, p, q) with no row for (u, p) fails with the
\* not-found error and leaves carts unchanged; with a row, q = 0 deletes it,
\* so that getCart(u) no longer lists p, and q > 0 leaves one row for (u, p)
\* whose quantity is q.
UpdateCartItemEffect ==
    last'.op = "updateCartItem"
    => LET u == last'.params[1]
           p == last'.params[2]
           q == last'.params[3]
           cart == GetCart(carts', u)
       IN  IF CartRowsFor(carts, u, p) = <<>>
           THEN last'.err = "NotFound" /\ carts' = carts
           ELSE /\ last'.err = "none"
                /\ q = 0 => \A i \in DOMAIN cart : cart[i].productId # p
                /\ q > 0 => /\ Len(CartRowsFor(carts', u, p)) = 1
                            /\ CartRowsFor(carts', u, p)[1].quantity = q

C10_UpdateCartItem == [][UpdateCartItemEffect]_vars

C10_Witness ==
    /\ last.op = "updateCartItem"
    /\ last.params[3] = 0
    /\ last.err = "none"
    /\ CartRowsFor(carts, last.params[1], last.params[2]) = <<>>
    /\ Len(CartRows(carts, last.params[1])) = 1

\* -------------------------------------------------- analytics over orders
\* Orders are placed at instants that never go back, and the analytics
\* methods are called at or after the last of them.  report holds the last
\* analytics call made on the present collections.
Periods == {"day", "week"}
WeekTicks == DaysPerWeek * TicksPerDay
Instants == (0 .. 2 * TicksPerDay - 1) \cup (WeekTicks - 1 .. WeekTicks + TicksPerDay)
Limits == 0 .. 3
StatsOrders ==
    {<<[productId |-> "p1", quantity |-> 1]>>,
     <<[productId |-> "p2", quantity |-> 1]>>,
     <<[productId |-> "p2", quantity |-> 1], [productId |-> "p1", quantity |-> 1]>>}

NotBefore(now) == \A i \in DOMAIN orders : orders[i].created_at <= now

CreateOrderAtStep(items, now) ==
    /\ Len(orders) < MaxStatsOrders
    /\ NotBefore(now)
    /\ \E r \in {CreateOrderAt(products, orders, order_items,
                                 [userId |-> "u1", items |-> items], now)} :
          /\ products' = r.products
          /\ orders' = r.orders
          /\ order_items' = r.order_items
          /\ last' = Called("createOrder", <<"u1">>,
                            LinesAgainstStock(products, items), r, <<>>, r.order)
    /\ report' = NoReport
    /\ UNCHANGED <<carts, ledger, added, tasks, clientVars>>

GetRevenueStatsStep(period, now) ==
    /\ NotBefore(now)
    /\ report' = [op |-> "getRevenueStats", now |-> now, period |-> period,
                  limit |-> 0, stats |-> GetRevenueStats(orders, now, period),
                  top |-> <<>>]
    /\ UNCHANGED <<products, orders, order_items, carts, last, ledger, added, tasks, clientVars>>

GetTopProductsStep(limit, period, now) ==
    /\ NotBefore(now)
    /\ report' = [op |-> "getTopProducts", now |-> now, period |-> period,
                  limit |-> limit, stats |-> NoStats,
                  top |-> GetTopProducts(orders, limit, period, now)]
    /\ UNCHANGED <<products, orders, order_items, carts, last, ledger, added, tasks, clientVars>>

NextStats ==
    \/ \E items \in StatsOrders, now \in Instants : CreateOrderAtStep(items, now)
    \/ \E period \in Periods, now \in Instants : GetRevenueStatsStep(period, now)
    \/ \E limit \in Limits, period \in Periods \cup {"none"}, now \in Instants :
          GetTopProductsStep(limit, period, now)

SpecStats == Init /\ [][NextStats]_vars

\* Sum of price times quantity over order lines.
LinesValue(lines) ==
    SumSeq([i \in DOMAIN lines |-> lines[i].price * lines[i].quantity])

\* C11: for every successful calculateOrderTotal (its result is what
\* createOrder stores in the order), subtotal is the sum over the lines of
\* price times quantity, tax is subtotal * 0.08 rounded to the nearest
\* integer, and shipping is 0 when subtotal > 5000 and 500 otherwise.
C11_TaxAndShipping ==
    \A i \in DOMAIN orders :
        LET o == orders[i]
        IN  /\ o.subtotal = LinesValue(OrderLines(order_items, o.id))
            /\ 100 * o.tax - 8 * o.subtotal \in -49 .. 50
            /\ o.shipping = IF o.subtotal > 5000 THEN 0 ELSE 500

C11_Witness ==
    \E i \in DOMAIN orders :
        /\ orders[i].subtotal = 5000
        /\ orders[i].shipping = 500
        /\ orders[i].tax = 400

\* C12: createOrder persists the order record and all its order_items
\* records before it issues the first decrement: when a decrement fails,
\* createOrder fails, the new order is on record with status pending and all
\* its lines, and the decrements of the lines before the failing one are
\* applied (the failing line asks for more than what they left).
CreateOrderPartial ==
    (last'.op = "createOrder" /\ last'.err = "InsufficientStock")
    => /\ Len(orders') = Len(orders) + 1
       /\ LET o == orders'[Len(orders')]
               lines == OrderLines(order_items', o.id)
               applied == last'.writes - 1 - Len(lines)
           IN  /\ ~DbHas(orders, o.id)
               /\ o.status = "pending"
               /\ Len(order_items') = Len(order_items) + Len(lines)
               /\ lines = o.items
               /\ applied \in 0 .. Len(lines) - 1
               /\ \A p \in Products :
                      products'[p].stock = Stock(p) - QtyFor(SubSeq(lines, 1, applied), p)
               /\ lines[applied + 1].quantity > products'[lines[applied + 1].productId].stock

EntryError(prods, u) ==
    IF u.productId \notin DOMAIN prods THEN "NotFound"
    ELSE IF u.operation = "decrement" /\ prods[u.productId].stock < u.quantity
         THEN "InsufficientStock"
         ELSE "none"

RECURSIVE AppliedPrefix(_, _, _)
AppliedPrefix(prods, updates, k) ==
    IF k = 0 THEN prods
    ELSE LET prev == AppliedPrefix(prods, updates, k - 1)
             u == updates[k]
         IN  [prev EXCEPT ![u.productId].stock =
                  CASE u.operation = "set" -> u.quantity
                    [] u.operation = "increment" -> @ + u.quantity
                    [] u.operation = "decrement" -> @ - u.quantity]

\* C13: bulkUpdateInventory applies its entries one at a time in the order
\* supplied: when entry k + 1 is the first to fail, exactly the updates of
\* entries 1..k are stored, no later entry is applied, and the error thrown
\* is that of entry k + 1; when none fails all are stored.
BulkEffect ==
    last'.op = "bulkUpdateInventory"
    => LET updates == last'.params[1]
           k == last'.writes
       IN  /\ k \in 0 .. Len(updates)
           /\ \A j \in 1 .. k :
                  EntryError(AppliedPrefix(products, updates, j - 1), updates[j]) = "none"
           /\ products' = AppliedPrefix(products, updates, k)
           /\ IF k = Len(updates)
              THEN last'.err = "none"
              ELSE /\ last'.err # "none"
                   /\ last'.err = EntryError(products', updates[k + 1])

C13_BulkSequential == [][BulkEffect]_vars

C13_Witness ==
    /\ last.op = "bulkUpdateInventory"
    /\ Len(last.params[1]) = 3
    /\ last.writes = 1
    /\ last.err = "InsufficientStock"
    /\ last.params[1][3].operation = "increment"
    /\ last.params[1][3].productId \in Products
    /\ last.params[1][1].productId # last.params[1][2].productId

\* C14: order items are snapshots: the lines getOrder returns for a new
\* order carry the name and price the products had when createOrder ran,
\* and no later updateProduct or updateInventory changes what getOrder
\* returns for any existing order (lines, subtotal, tax, shipping, total).
SnapshotKept ==
    /\ (last'.op = "createOrder" /\ last'.err = "none")
       => LET lines == GetOrder(orders', order_items', last'.order).items
          IN  \A i \in DOMAIN lines :
                  /\ lines[i].price = products[lines[i].productId].price
                  /\ lines[i].name = products[lines[i].productId].name
    /\ last'.op \in {"updateProduct", "updateInventory"}
       => \A i \in DOMAIN orders :
              GetOrder(orders', order_items', orders[i].id)
                  = GetOrder(orders, order_items, orders[i].id)

C14_ItemsAreSnapshots == [][SnapshotKept]_vars

C14_Witness ==
    /\ last.op \in {"updateProduct", "updateInventory"}
    /\ last.err = "none"
    /\ \E i \in DOMAIN orders :
           LET lines == GetOrder(orders, order_items, orders[i].id).items
           IN  \E j \in DOMAIN lines :
                   /\ lines[j].quantity = 2
                   /\ lines[j].price # products[lines[j].productId].price
                   /\ lines[j].name # products[lines[j].productId].name
                   /\ orders[i].subtotal = 2 * lines[j].price

\* C15 as claimed: once the stored status of an order is delivered or
\* cancelled, no operation changes it.
C15_TerminalStatesKept ==
    [][\A i \in DOMAIN orders :
           orders[i].status \in {"delivered", "cancelled"}
           => /\ DbHas(orders', orders[i].id)
              /\ DbGet(orders', orders[i].id).status = orders[i].status]_vars

\* C15 as amended: delivered and cancelled are not enforced as terminal.
\* The stored status of an order is what the last updateOrderStatus on it
\* asked for, whatever it was before, and cancelled after a cancelOrder on
\* it; no other call changes it, and no call removes the order.
StatusFollowsCalls ==
    \A i \in DOMAIN orders :
        LET id == orders[i].id
        IN  /\ DbHas(orders', id)
            /\ DbGet(orders', id).status =
                   IF last'.op = "updateOrderStatus" /\ last'.params[1] = id
                   THEN last'.params[2]
                   ELSE IF last'.op = "cancelOrder" /\ last'.params[1] = id
                        THEN "cancelled"
                        ELSE orders[i].status

C15_StatusFollowsCalls == [][StatusFollowsCalls]_vars

C15_Witness ==
    /\ last.op = "updateOrderStatus"
    /\ last.err = "none"
    /\ \E i \in DOMAIN orders :
           /\ orders[i].id = last.params[1]
           /\ orders[i].status = "pending"
           /\ OrderLines(order_items, orders[i].id) # <<>>
    /\ \A p \in Products : Stock(p) = InitStock[p]

\* C16: updateOrderStatus on an order on record returns normally for every
\* pair of current and requested status and stores the requested status;
\* on an order that is not on record it fails with the not-found error and
\* changes no order.
UpdateOrderStatusEffect ==
    last'.op = "updateOrderStatus"
    => IF DbHas(orders, last'.params[1])
       THEN /\ last'.err = "none"
            /\ DbGet(orders', last'.params[1]).status = last'.params[2]
            /\ Len(orders') = Len(orders)
       ELSE last'.err = "NotFound" /\ orders' = orders

C16_AnyTransition == [][UpdateOrderStatusEffect]_vars

C16_Witness ==
    /\ last.op = "updateOrderStatus"
    /\ last.err = "none"
    /\ last.params[2] = "processing"
    /\ DbGet(orders, last.params[1]).status = "processing"
    /\ OrderLines(order_items, last.params[1]) # <<>>
    /\ \A p \in Products : Stock(p) = InitStock[p]

\* Both callers' decrements of product p have returned normally.
BothDecremented(p) ==
    \A c \in Callers :
        /\ tasks[c].pc = "done"
        /\ tasks[c].err = "none"
        /\ tasks[c].operation = "decrement"
        /\ tasks[c].productId = p

PeriodTicks(period) == IF period = "day" THEN TicksPerDay ELSE WeekTicks

PercentChange(current, previous) ==
    IF previous = 0 THEN 0 ELSE RoundDiv((current - previous) * 10000, previous)

C18_PreviousWindowTrend ==
    report.op = "getRevenueStats" =>
        LET start == GetPeriodStart(report.now, report.period)
            current == SelectSeq(orders, LAMBDA o : o.created_at >= start)
            previous == SelectSeq(orders,
                            LAMBDA o : /\ o.created_at >= start - PeriodTicks(report.period)
                                       /\ o.created_at < start)
        IN  /\ report.stats.trend.revenue =
                    PercentChange(SumTotals(current), SumTotals(previous))
            /\ report.stats.trend.orders = PercentChange(Len(current), Len(previous))
            /\ (previous # <<>> /\ SumTotals(previous) # SumTotals(current)
                    => report.stats.trend.revenue # 0)

\* C19: getTopProducts(limit) returns at most limit entries, one per
\* productId found in the items of the scanned orders, each with totalSold
\* the sum of its line quantities and revenue the sum of price times
\* quantity over its lines, in order of non-increasing revenue, and no
\* product left out has a higher revenue than one returned.
ScannedLines == AllItems(FilteredOrders(orders, report.period, report.now))

LinesOf(lines, productId) == SelectSeq(lines, LAMBDA l : l.productId = productId)

SoldOf(lines, productId) ==
    LET own == LinesOf(lines, productId)
    IN  SumSeq([i \in DOMAIN own |-> own[i].quantity])

RevenueOf(lines, productId) == LinesValue(LinesOf(lines, productId))

C19_TopProducts ==
    report.op = "getTopProducts" =>
        LET top == report.top
            scanned == {ScannedLines[i].productId : i \in DOMAIN ScannedLines}
            returned == {top[i].productId : i \in DOMAIN top}
        IN  /\ Len(top) <= report.limit
            /\ returned \subseteq scanned
            /\ Cardinality(returned) = Len(top)
            /\ Len(top) < report.limit => returned = scanned
            /\ \A i \in DOMAIN top :
                  /\ top[i].totalSold = SoldOf(ScannedLines, top[i].productId)
                  /\ top[i].revenue = RevenueOf(ScannedLines, top[i].productId)
            /\ \A i, j \in DOMAIN top : i < j => top[i].revenue >= top[j].revenue
            /\ \A q \in scanned \ returned : \A i \in DOMAIN top :
                  RevenueOf(ScannedLines, q) <= top[i].revenue

\* Two products were sold, the cheaper one first, and one entry was asked for.
C19_Witness ==
    /\ report.op = "getTopProducts"
    /\ report.limit = 1
    /\ Len(ScannedLines) >= 2
    /\ ScannedLines[1].productId = "p2"
    /\ Len(report.top) = 1
    /\ report.top[1].productId = "p1"

\* C20: for every order on record, a successfully created one included,
\* getOrder returns as items exactly the (productId, name, quantity, price)
\* lines of the order_items records persisted for it, which are the lines
\* createOrder computed, and the stored subtotal is the sum of price times
\* quantity over the returned lines.
C20_OrderItemsAgree ==
    \A i \in DOMAIN orders :
        LET o == orders[i]
            returned == GetOrder(orders, order_items, o.id)
            rows == SelectSeq(order_items, LAMBDA r : r.orderId = o.id)
        IN  /\ Len(returned.items) = Len(rows)
            /\ \A k \in DOMAIN rows :
                  /\ returned.items[k].productId = rows[k].productId
                  /\ returned.items[k].name = rows[k].name
                  /\ returned.items[k].quantity = rows[k].quantity
                  /\ returned.items[k].price = rows[k].price
            /\ returned.items = o.items
            /\ returned.subtotal = o.subtotal
            /\ o.subtotal = LinesValue(returned.items)

\* createOrder has just returned an order of two lines for two products.
C20_Witness ==
    /\ last.op = "createOrder"
    /\ last.err = "none"
    /\ last.order \in {orders[i].id : i \in DOMAIN orders}
    /\ LET returned == GetOrder(orders, order_items, last.order)
       IN  /\ Len(returned.items) = 2
           /\ returned.items[1].productId # returned.items[2].productId

\* ------------------------------------------------ realtime subscriptions
\* One VlibeBaseDatabase instance.  The channel name is
\* base:<projectId>:<collection>; the project is fixed, so the collection
\* stands for the name.  supabase.channel(name) makes a channel of its own
\* for every call; channels[i].joined says that channel i is subscribed.
\* The Subscription that subscribe returns is kept by the caller, who may
\* call its unsubscribe at any time, more than once.
Collections == {"todos", "notes"}

SubscribeStep(collection) ==
    /\ Len(channels) < MaxChannels
    /\ channels' = Append(channels, [name |-> collection, joined |-> TRUE])
    /\ subscriptions' = [name \in DOMAIN subscriptions \cup {collection} |->
                            IF name = collection THEN Len(channels) + 1
                            ELSE subscriptions[name]]
    /\ last' = [NoCall EXCEPT !.op = "subscribe"]
    /\ UNCHANGED <<products, orders, order_items, carts, ledger, added, tasks,
                   report, hook, auth>>

\* The unsubscribe of the Subscription that made channel i.
UnsubscribeStep(i) ==
    /\ channels' = [channels EXCEPT ![i].joined = FALSE]
    /\ subscriptions' = [name \in DOMAIN subscriptions \ {channels[i].name} |->
                            subscriptions[name]]
    /\ last' = [NoCall EXCEPT !.op = "unsubscribe"]
    /\ UNCHANGED <<products, orders, order_items, carts, ledger, added, tasks,
                   report, hook, auth>>

UnsubscribeAllStep ==
    /\ channels' = [i \in DOMAIN channels |->
                        IF \E name \in DOMAIN subscriptions : subscriptions[name] = i
                        THEN [channels[i] EXCEPT !.joined = FALSE]
                        ELSE channels[i]]
    /\ subscriptions' = NoSubscriptions
    /\ last' = [NoCall EXCEPT !.op = "unsubscribeAll"]
    /\ UNCHANGED <<products, orders, order_items, carts, ledger, added, tasks,
                   report, hook, auth>>

NextRealtime ==
    \/ \E collection \in Collections : SubscribeStep(collection)
    \/ \E i \in DOMAIN channels : UnsubscribeStep(i)
    \/ UnsubscribeAllStep

SpecRealtime == Init /\ [][NextRealtime]_vars

\* C21: when unsubscribeAll has returned, no channel made by an earlier
\* subscribe of the instance is still subscribed and the subscription map is
\* empty, whatever subscribe and unsubscribe calls came before.
C21_UnsubscribeAllLeavesNone ==
    last.op = "unsubscribeAll" =>
        /\ \A i \in DOMAIN channels : ~channels[i].joined
        /\ DOMAIN subscriptions = {}

\* ------------------------------------------------------- VlibeBaseAuth
\* VlibeUser objects (types.ts); the value null of a string field is
\* "null", a null appAccess the empty sequence.  The fields email and
\* avatarUrl, which no check reads, are left out.
AppAccesses ==
    {<<>>} \cup {<<access>> : access \in [tier : {"null", "pro"},
                                          features : SUBSET {"premium-feature",
                                                              "export"}]}

VlibeUsers ==
    [id : {"u1", "u2"}, name : {"null", "Ann"},
     subscriptionType : {"platform", "individual", "null"},
     appAccess : AppAccesses]

\* user?.subscriptionType: undefined when user is null.
SubscriptionTypeOf(user) ==
    IF user = <<>> THEN "undefined" ELSE user[1].subscriptionType

\* user?.subscriptionType !== null
HasSubscription(user) == SubscriptionTypeOf(user) # "null"

InitAuth ==
    /\ products = InitProducts
    /\ orders = <<>>
    /\ order_items = <<>>
    /\ carts = <<>>
    /\ last = NoCall
    /\ ledger = FreshLedger(InitProducts)
    /\ added = NoAdded
    /\ tasks = NoTasks
    /\ report = NoReport
    /\ channels = <<>>
    /\ subscriptions = NoSubscriptions
    /\ hook = NoHook
    /\ \E user \in {<<>>} \cup {<<u>> : u \in VlibeUsers} : auth = [NoAuth EXCEPT !.user = user]

HasSubscriptionStep ==
    /\ auth' = [auth EXCEPT !.called = TRUE, !.result = HasSubscription(auth.user)]
    /\ UNCHANGED <<products, orders, order_items, carts, last, ledger, added, tasks,
                   report, channels, subscriptions, hook>>

NextAuth == HasSubscriptionStep

SpecAuth == InitAuth /\ [][NextAuth]_vars

\* C22: hasSubscription(user) is true exactly when user is not null and
\* user.subscriptionType is 'platform' or 'individual'; it is false for a
\* null user and for a user whose subscriptionType is null.
C22_HasSubscription ==
    auth.called =>
        (auth.result <=> /\ auth.user # <<>>
                         /\ auth.user[1].subscriptionType \in {"platform", "individual"})

\* ------------------------------------------- orders and stock in balance
\* createOrder, checkout (on carts filled by addToCart), cancelOrder with
\* restoreInventory = true and updateOrderStatus, one call after the other.
LifecycleOrders ==
    {<<[productId |-> "p1", quantity |-> 1]>>,
     <<[productId |-> "p2", quantity |-> 1], [productId |-> "p1", quantity |-> 1]>>,
     <<[productId |-> "p1", quantity |-> 2], [productId |-> "p1", quantity |-> 1]>>}
LifecycleCartLines ==
    {[productId |-> "p1", quantity |-> 1], [productId |-> "p2", quantity |-> 1]}

NextLifecycle ==
    \/ \E u \in OrderUsers, items \in LifecycleOrders : CreateOrderStep(u, items)
    \/ \E u \in OrderUsers, item \in LifecycleCartLines : AddToCartStep(u, item)
    \/ \E u \in OrderUsers : CheckoutStep(u)
    \/ \E id \in OrderIds, status \in {"shipped", "cancelled"} :
          UpdateOrderStatusStep(id, status)
    \/ \E id \in OrderIds : CancelOrderStep(id, TRUE)

SpecLifecycle == Init /\ [][NextLifecycle]_vars

\* The quantity of product p on the orders that are not cancelled.
OrderedQty(ords, p) ==
    LET open == SelectSeq(ords, LAMBDA o : o.status # "cancelled")
        lines == LinesOf(AllItems(open), p)
    IN  SumSeq([i \in DOMAIN lines |-> lines[i].quantity])

Balance(prods, ords, p) == prods[p].stock + OrderedQty(ords, p)

StatusOf(ords, id) == IF DbHas(ords, id) THEN DbGet(ords, id).status ELSE "none"

CrossesCancelled ==
    /\ last'.op = "updateOrderStatus"
    /\ (StatusOf(orders, last'.params[1]) = "cancelled")
            # (StatusOf(orders', last'.params[1]) = "cancelled")

FailedDecrement ==
    /\ last'.op \in {"createOrder", "checkout"}
    /\ last'.err = "InsufficientStock"

Reduced(lines) ==
    \A p \in Products : products'[p].stock = Stock(p) - QtyFor(lines, p)

NextRaceStock ==
    \/ \E c \in Callers, p \in ProductIds, q \in CartQty,
          operation \in {"increment", "decrement"} :
           UpdateInventoryCall(c, p, q, operation)
    \/ \E c \in Callers : UpdateProductRead(c)
    \/ \E c \in Callers : UpdateProductWrite(c)

SpecRaceStock == InitInventory /\ [][NextRaceStock]_vars

\* C25: under every interleaving of updateInventory calls that increment or
\* decrement by quantities that are not negative, on stock that starts at 0
\* or above, the stock stored is never negative, and neither is the stock a
\* call in flight is about to store.
C25_RaceKeepsStockAboveZero ==
    /\ \A p \in Products : products[p].stock >= 0
    /\ \A c \in Callers :
          tasks[c].pc \in {"updateProduct", "write"} => tasks[c].newStock >= 0

\* Both calls returned, one of the two updates was lost, and the stock is 0.
C25_Witness ==
    \E p \in Products :
        /\ \A c \in Callers : /\ tasks[c].pc = "done"
                               /\ tasks[c].err = "none"
                               /\ tasks[c].productId = p
                               /\ tasks[c].quantity > 0
        /\ tasks["a"].operation = "decrement"
        /\ products[p].stock = 0
        /\ products[p].stock # NewStock(NewStock(ledger[p].base, tasks["a"].quantity,
                                                 tasks["a"].operation),
                                        tasks["b"].quantity, tasks["b"].operation)

\* ------------------ updateProduct beside updateInventory (SpecRaceProduct)
\* Caller "a" calls updateProduct with updates that have no stock field,
\* caller "b" calls updateInventory; the round trips interleave.
\* First round trip of updateProduct: getProduct.
UpdateProductCall(c, p, updates) ==
    /\ tasks[c].pc = "idle"
    /\ LET t == [IdleTask EXCEPT !.productId = p, !.operation = "updateProduct",
                                 !.updates = updates]
       IN  IF ~HasProduct(products, p)
           THEN /\ tasks' = [tasks EXCEPT ![c] = [t EXCEPT !.pc = "done", !.err = "NotFound"]]
                /\ last' = Called("updateProduct", <<p>>, NoLines, Thrown("NotFound"),
                                  <<>>, 0)
           ELSE /\ tasks' = [tasks EXCEPT ![c] =
                                 [t EXCEPT !.pc = "update", !.existing = <<products[p]>>]]
                /\ last' = last
    /\ UNCHANGED <<products, orders, order_items, carts, ledger, added, report, clientVars>>

\* Second round trip: db.update stores { ...existing, ...updates, id }.
UpdateProductStore(c) ==
    LET t == tasks[c]
    IN  /\ t.pc = "update"
        /\ products' = [products EXCEPT ![t.productId] =
                            Spread(Spread(t.existing[1], t.updates), [id |-> t.productId])]
        /\ tasks' = [tasks EXCEPT ![c] = [t EXCEPT !.pc = "done"]]
        /\ last' = Called("updateProduct", <<t.productId>>, NoLines,
                          [err |-> "none", writes |-> 1], <<>>, 0)
        /\ UNCHANGED <<orders, order_items, carts, ledger, added, report, clientVars>>

NextRaceProduct ==
    \/ \E p \in ProductIds, updates \in ProductUpdates \cup {[isActive |-> FALSE]} :
           UpdateProductCall("a", p, updates)
    \/ UpdateProductStore("a")
    \/ \E p \in ProductIds, q \in OrderQty, operation \in Operations :
           UpdateInventoryCall("b", p, q, operation)
    \/ UpdateProductRead("b")
    \/ UpdateProductWrite("b")

SpecRaceProduct == InitInventory /\ [][NextRaceProduct]_vars

\* C26: an updateProduct call whose updates have no stock field never
\* changes the stored stock, also beside an updateInventory on the same
\* product: the step in which it writes leaves every stock as stored, so
\* that after both calls the stock is the one updateInventory wrote.
C26_UpdateProductKeepsStock ==
    [][(tasks["a"].pc = "update" /\ tasks'["a"].pc = "done")
       => \A p \in Products : products'[p].stock = products[p].stock]_vars

\* ------------------------------------ overlapping cancelOrder (SpecCancel)
\* Orders are placed while no call is in flight; then each caller makes one
\* cancelOrder(id, true) call and the round trips interleave.  A call in
\* flight holds the order it read and i, the number of order lines whose
\* increment it has written.
CancelOrders ==
    {<<[productId |-> "p1", quantity |-> 1]>>,
     <<[productId |-> "p1", quantity |-> 1], [productId |-> "p2", quantity |-> 1]>>}

PlaceOrderStep(items) ==
    /\ \A c \in Callers : tasks[c].pc = "idle"
    /\ CreateOrderStep("u1", items)

CancelReturns(c, t, error, writes) ==
    /\ tasks' = [tasks EXCEPT ![c] = [t EXCEPT !.pc = "done", !.err = error]]
    /\ last' = Called("cancelOrder", <<t.orderId, TRUE>>, NoLines,
                      [err |-> error, writes |-> writes], <<>>, 0)

\* getOrder of cancelOrder, and the early return on a cancelled order.
CancelGetOrder(c, id) ==
    /\ tasks[c].pc = "idle"
    /\ LET t == [IdleTask EXCEPT !.orderId = id, !.operation = "cancelOrder"]
       IN  IF ~DbHas(orders, id) THEN CancelReturns(c, t, "NotFound", 0)
           ELSE LET order == GetOrder(orders, order_items, id)
                IN  IF order.status = "cancelled" THEN CancelReturns(c, t, "none", 0)
                    ELSE /\ tasks' = [tasks EXCEPT ![c] =
                                          [t EXCEPT !.order = <<order>>,
                                                    !.pc = IF order.items = <<>>
                                                           THEN "status" ELSE "inventory"]]
                         /\ last' = last
    /\ UNCHANGED <<products, orders, order_items, carts, ledger, added, report, clientVars>>

\* updateInventory(productId, quantity, 'increment') of line i + 1: getProduct.
CancelInventoryRead(c) ==
    LET t == tasks[c]
        item == t.order[1].items[t.i + 1]
    IN  /\ t.pc = "inventory"
        /\ \E r \in {ReadInventory(products, item.productId, item.quantity, "increment")} :
              IF r.err # "none" THEN CancelReturns(c, t, r.err, t.i)
              ELSE /\ tasks' = [tasks EXCEPT ![c] =
                                    [t EXCEPT !.pc = "product", !.productId = item.productId,
                                              !.newStock = r.newStock]]
                   /\ last' = last
        /\ UNCHANGED <<products, orders, order_items, carts, ledger, added, report,
                       clientVars>>

\* getProduct of the updateProduct that updateInventory calls.
CancelProductRead(c) ==
    LET t == tasks[c]
    IN  /\ t.pc = "product"
        /\ IF ~HasProduct(products, t.productId) THEN CancelReturns(c, t, "NotFound", t.i)
           ELSE /\ tasks' = [tasks EXCEPT ![c] =
                                 [t EXCEPT !.pc = "write",
                                           !.existing = <<products[t.productId]>>]]
                /\ last' = last
        /\ UNCHANGED <<products, orders, order_items, carts, ledger, added, report,
                       clientVars>>

\* db.update of that updateProduct; bulkUpdateInventory goes on to the next line.
CancelProductWrite(c) ==
    LET t == tasks[c]
    IN  /\ t.pc = "write"
        /\ products' = [products EXCEPT ![t.productId] =
                            Spread(Spread(t.existing[1], [stock |-> t.newStock]),
                                   [id |-> t.productId])]
        /\ tasks' = [tasks EXCEPT ![c] =
                         [t EXCEPT !.i = t.i + 1,
                                   !.pc = IF t.i + 1 < Len(t.order[1].items)
                                          THEN "inventory" ELSE "status"]]
        /\ UNCHANGED <<orders, order_items, carts, last, ledger, added, report, clientVars>>

\* getOrder of updateOrderStatus(orderId, 'cancelled').
CancelStatusRead(c) ==
    LET t == tasks[c]
    IN  /\ t.pc = "status"
        /\ IF ~DbHas(orders, t.orderId) THEN CancelReturns(c, t, "NotFound", t.i)
           ELSE /\ tasks' = [tasks EXCEPT ![c] =
                                 [t EXCEPT !.pc = "store",
                                           !.order = <<GetOrder(orders, order_items,
                                                                t.orderId)>>]]
                /\ last' = last
        /\ UNCHANGED <<products, orders, order_items, carts, ledger, added, report,
                       clientVars>>

\* db.update of updateOrderStatus.
CancelStatusStore(c) ==
    LET t == tasks[c]
    IN  /\ t.pc = "store"
        /\ orders' = DbUpdate(orders, t.orderId,
                              Spread(t.order[1], [status |-> "cancelled"]))
        /\ CancelReturns(c, t, "none", t.i + 1)
        /\ UNCHANGED <<products, order_items, carts, ledger, added, report, clientVars>>

NextCancel ==
    \/ \E items \in CancelOrders : PlaceOrderStep(items)
    \/ \E c \in Callers, id \in OrderIds : CancelGetOrder(c, id)
    \/ \E c \in Callers : CancelInventoryRead(c)
    \/ \E c \in Callers : CancelProductRead(c)
    \/ \E c \in Callers : CancelProductWrite(c)
    \/ \E c \in Callers : CancelStatusRead(c)
    \/ \E c \in Callers : CancelStatusStore(c)

SpecCancel == Init /\ [][NextCancel]_vars

\* C27: when two cancelOrder(id, true) calls on one order that is not
\* cancelled interleave, each line of the order has its quantity given back
\* to the stock by at most one of them, and no stock ends above the stock
\* the product had before the order was placed.
C27_RestoredOnce ==
    /\ \A id \in OrderIds :
          \A k \in 1 .. 2 :
              Cardinality({c \in Callers : tasks[c].orderId = id /\ tasks[c].i >= k}) <= 1
    /\ \A p \in Products : products[p].stock <= InitStock[p]

\* -------------------------------------- overlapping addToCart (SpecRaceCart)
\* A cart is filled by completed addToCart calls while no call is in flight;
\* then each caller makes one addToCart call and the round trips interleave.
\* crypto.randomUUID() gives an id that no row has and no call holds.
HeldIds == UNION {{tasks[c].rows[i].id : i \in DOMAIN tasks[c].rows} : c \in Callers}

RandomId(coll) ==
    CHOOSE n \in 1 .. Len(coll) + Cardinality(HeldIds) + 1 :
        /\ n \notin HeldIds
        /\ \A i \in DOMAIN coll : coll[i].id # n

FillCartStep(u, item) ==
    /\ \A c \in Callers : tasks[c].pc = "idle"
    /\ AddToCartStep(u, item)

\* First round trip of addToCart: the query for the row of (userId, productId).
AddToCartQuery(c, u, item) ==
    /\ tasks[c].pc = "idle"
    /\ tasks' = [tasks EXCEPT ![c] =
                     [IdleTask EXCEPT !.pc = "put", !.operation = "addToCart",
                                      !.userId = u, !.productId = item.productId,
                                      !.quantity = item.quantity,
                                      !.rows = CartRowsFor(carts, u, item.productId)]]
    /\ UNCHANGED <<products, orders, order_items, carts, last, ledger, added, report,
                   clientVars>>

AddToCartReturns(c, t, error) ==
    /\ tasks' = [tasks EXCEPT ![c] = [t EXCEPT !.pc = "done", !.err = error]]
    /\ last' = Called("addToCart", <<t.userId, t.productId, t.quantity>>, NoLines,
                      [err |-> error, writes |-> 0], <<>>, 0)

\* Second round trip: db.update of the row found, or db.insert of a new row.
\* The store answers the update of a row that is gone with an error, which
\* apiRequest throws.
AddToCartPut(c) ==
    LET t == tasks[c]
    IN  /\ t.pc = "put"
        /\ IF Len(t.rows) > 0
           THEN LET existing == t.rows[1]
                IN  IF DbHas(carts, existing.id)
                    THEN /\ carts' = DbUpdate(carts, existing.id,
                                              Spread(existing,
                                                     [quantity |-> existing.quantity
                                                                     + t.quantity]))
                         /\ tasks' = [tasks EXCEPT ![c] = [t EXCEPT !.pc = "getCart"]]
                         /\ last' = last
                    ELSE /\ carts' = carts
                         /\ AddToCartReturns(c, t, "StoreError")
           ELSE /\ carts' = DbInsert(carts, [id |-> RandomId(carts), userId |-> t.userId,
                                             productId |-> t.productId,
                                             quantity |-> t.quantity])
                /\ tasks' = [tasks EXCEPT ![c] = [t EXCEPT !.pc = "getCart"]]
                /\ last' = last
        /\ UNCHANGED <<products, orders, order_items, ledger, added, report, clientVars>>

\* Third round trip: the getCart whose result addToCart returns.
AddToCartGetCart(c) ==
    LET t == tasks[c]
    IN  /\ t.pc = "getCart"
        /\ tasks' = [tasks EXCEPT ![c] =
                         [t EXCEPT !.pc = "done", !.cart = GetCart(carts, t.userId)]]
        /\ last' = Called("addToCart", <<t.userId, t.productId, t.quantity>>, NoLines,
                          [err |-> "none", writes |-> 1], GetCart(carts, t.userId), 0)
        /\ UNCHANGED <<products, orders, order_items, carts, ledger, added, report,
                       clientVars>>

NextRaceCart ==
    \/ \E item \in LifecycleCartLines : FillCartStep("u1", item)
    \/ \E c \in Callers, item \in [productId : Products, quantity : {1, 2}] :
          AddToCartQuery(c, "u1", item)
    \/ \E c \in Callers : AddToCartPut(c)
    \/ \E c \in Callers : AddToCartGetCart(c)

SpecRaceCart == Init /\ [][NextRaceCart]_vars

\* C29: when two addToCart calls for the same (userId, productId) have both
\* returned, under whatever interleaving, the carts collection has at most
\* one row for the pair and its quantity is the sum of both added
\* quantities and the quantity the cart held before.
C29_ConcurrentAddsMerge ==
    (/\ \A c \in Callers : tasks[c].pc = "done" /\ tasks[c].operation = "addToCart"
     /\ tasks["a"].userId = tasks["b"].userId
     /\ tasks["a"].productId = tasks["b"].productId)
    => LET rows == CartRowsFor(carts, tasks["a"].userId, tasks["a"].productId)
       IN  /\ Len(rows) = 1
           /\ rows[1].quantity = added[tasks["a"].userId][tasks["a"].productId].sum
                                     + tasks["a"].quantity + tasks["b"].quantity

\* ------------------------- addToCart beside checkout (SpecRaceCheckout)
\* Caller "a" calls addToCart and caller "b" checkout for the same user; the
\* round trips interleave.  createOrder touches products, orders and
\* order_items only, which addToCart never reads: it is one step here.
CheckoutReturns(t, error, order) ==
    /\ tasks' = [tasks EXCEPT !["b"] = [t EXCEPT !.pc = "done", !.err = error]]
    /\ last' = Called("checkout", <<t.userId>>, NoLines,
                      [err |-> error, writes |-> 0], <<>>, order)

\* getCart of checkout, and the throw on an empty cart.
CheckoutGetCart(u) ==
    /\ tasks["b"].pc = "idle"
    /\ LET t == [IdleTask EXCEPT !.operation = "checkout", !.userId = u,
                                 !.cart = GetCart(carts, u)]
       IN  IF Len(t.cart) = 0 THEN CheckoutReturns(t, "EmptyCart", 0)
           ELSE /\ tasks' = [tasks EXCEPT !["b"] = [t EXCEPT !.pc = "createOrder"]]
                /\ last' = last
    /\ UNCHANGED <<products, orders, order_items, carts, ledger, added, report, clientVars>>

\* createOrder of checkout over the cart it read.
CheckoutCreateOrder ==
    LET t == tasks["b"]
    IN  /\ t.pc = "createOrder"
        /\ \E r \in {CreateOrder(products, orders, order_items,
                                  [userId |-> t.userId, items |-> t.cart])} :
              /\ Len(r.orders) <= MaxOrders
              /\ products' = r.products
              /\ orders' = r.orders
              /\ order_items' = r.order_items
              /\ IF r.err # "none" THEN CheckoutReturns(t, r.err, 0)
                 ELSE /\ tasks' = [tasks EXCEPT !["b"] =
                                       [t EXCEPT !.pc = "clearCart", !.orderId = r.order]]
                      /\ last' = last
        /\ UNCHANGED <<carts, ledger, added, report, clientVars>>

\* The query of clearCart; with no row the loop is empty and checkout returns.
ClearCartQuery ==
    LET t == tasks["b"]
        items == CartRows(carts, t.userId)
    IN  /\ t.pc = "clearCart"
        /\ IF items = <<>> THEN CheckoutReturns(t, "none", t.orderId)
           ELSE /\ tasks' = [tasks EXCEPT !["b"] = [t EXCEPT !.pc = "delete",
                                                             !.rows = items]]
                /\ last' = last
        /\ UNCHANGED <<products, orders, order_items, carts, ledger, added, report,
                       clientVars>>

\* One db.delete of the clearCart loop; after the last one checkout returns.
ClearCartDelete ==
    LET t == tasks["b"]
    IN  /\ t.pc = "delete"
        /\ carts' = DbDelete(carts, Head(t.rows).id)
        /\ IF Tail(t.rows) = <<>>
           THEN CheckoutReturns([t EXCEPT !.rows = <<>>], "none", t.orderId)
           ELSE /\ tasks' = [tasks EXCEPT !["b"] = [t EXCEPT !.rows = Tail(t.rows)]]
                /\ last' = last
        /\ UNCHANGED <<products, orders, order_items, ledger, added, report, clientVars>>

NextRaceCheckout ==
    \/ \E item \in LifecycleCartLines : FillCartStep("u1", item)
    \/ \E item \in LifecycleCartLines : AddToCartQuery("a", "u1", item)
    \/ AddToCartPut("a")
    \/ AddToCartGetCart("a")
    \/ CheckoutGetCart("u1")
    \/ CheckoutCreateOrder
    \/ ClearCartQuery
    \/ ClearCartDelete

SpecRaceCheckout == Init /\ [][NextRaceCheckout]_vars

\* C28: when an addToCart of user u interleaves with a checkout of u, every
\* cart row that checkout deletes is, as stored when it is deleted, a line
\* of the order checkout created, with the same product and quantity.
C28_DeletedRowsAreOrdered ==
    [][(tasks["b"].pc = "delete" /\ carts' # carts)
       => LET row == DbGet(carts, Head(tasks["b"].rows).id)
              order == GetOrder(orders, order_items, tasks["b"].orderId)
          IN  \E k \in DOMAIN order.items :
                  /\ order.items[k].productId = row.productId
                  /\ order.items[k].quantity = row.quantity]_vars

\* ------------------------------------------- useCollection (SpecHook)
\* One mounted useCollection(db, collection, { realtime: true }).  Any
\* client changes the collection in the store; the store sends one realtime
\* event per change, delivered to the hook in order, some time later.  A
\* refresh is a query answered by the store and a setData when the answer
\* arrives.  With realtime on, the hook's own insert, update and remove
\* change the store only, like any client.
HookUnchanged ==
    UNCHANGED <<products, orders, order_items, carts, last, ledger, added, tasks,
                report, channels, subscriptions, auth>>

StoreInsert ==
    /\ hook.made < MaxDocs
    /\ Len(hook.events) < MaxEvents
    /\ LET doc == [id |-> hook.made + 1, version |-> 0]
       IN  hook' = [hook EXCEPT !.docs = Append(@, doc), !.made = @ + 1,
                                !.events = Append(@, [eventType |-> "INSERT", new |-> <<doc>>,
                                                      old |-> <<>>])]
    /\ HookUnchanged

StoreUpdate(id) ==
    /\ DbHas(hook.docs, id)
    /\ DbGet(hook.docs, id).version < MaxVersion
    /\ Len(hook.events) < MaxEvents
    /\ LET old == DbGet(hook.docs, id)
           new == [old EXCEPT !.version = @ + 1]
       IN  hook' = [hook EXCEPT !.docs = DbUpdate(@, id, new),
                                !.events = Append(@, [eventType |-> "UPDATE", new |-> <<new>>,
                                                      old |-> <<old>>])]
    /\ HookUnchanged

StoreDelete(id) ==
    /\ DbHas(hook.docs, id)
    /\ Len(hook.events) < MaxEvents
    /\ hook' = [hook EXCEPT !.docs = DbDelete(@, id),
                             !.events = Append(@, [eventType |-> "DELETE", new |-> <<>>,
                                                      old |-> <<DbGet(hook.docs, id)>>])]
    /\ HookUnchanged

\* refresh(): db.query is sent.
RefreshStart ==
    /\ hook.refresh = "idle"
    /\ hook' = [hook EXCEPT !.refresh = "sent"]
    /\ HookUnchanged

\* The store answers the query with the documents it holds.
RefreshAnswer ==
    /\ hook.refresh = "sent"
    /\ hook' = [hook EXCEPT !.refresh = "answered", !.result = hook.docs]
    /\ HookUnchanged

\* The answer arrives: setData(result).
RefreshDone ==
    /\ hook.refresh = "answered"
    /\ hook' = [hook EXCEPT !.refresh = "idle", !.data = hook.result, !.result = <<>>]
    /\ HookUnchanged

\* The callback given to db.subscribe, run on the next event.
OnEvent(data, payload) ==
    IF payload.eventType = "INSERT"
    THEN IF payload.new # <<>> THEN <<payload.new[1]>> \o data ELSE data
    ELSE IF payload.eventType = "UPDATE"
    THEN IF payload.new # <<>>
         THEN [i \in DOMAIN data |->
                  IF data[i].id = payload.new[1].id THEN payload.new[1] ELSE data[i]]
         ELSE data
    ELSE IF payload.old # <<>>
         THEN SelectSeq(data, LAMBDA item : item.id # payload.old[1].id)
         ELSE data

RealtimeEvent ==
    /\ hook.events # <<>>
    /\ hook' = [hook EXCEPT !.events = Tail(@),
                             !.data = OnEvent(hook.data, Head(hook.events))]
    /\ HookUnchanged

NextHook ==
    \/ StoreInsert
    \/ \E id \in 1 .. MaxDocs : StoreUpdate(id)
    \/ \E id \in 1 .. MaxDocs : StoreDelete(id)
    \/ RefreshStart
    \/ RefreshAnswer
    \/ RefreshDone
    \/ RealtimeEvent

SpecHook == Init /\ [][NextHook]_vars

\* C30: with realtime enabled, after whatever interleaving of refresh
\* completions and realtime INSERT, UPDATE and DELETE events, the data list
\* of useCollection never holds two entries with the same id.
C30_NoDuplicateIds ==
    \A i, j \in DOMAIN hook.data : i # j => hook.data[i].id # hook.data[j].id

====
